---- MODULE Spec2Model ----
(***************************************************************************)
(* Model of src/site/_collections/algolia.js: the Algolia search-record    *)
(* collection of web.dev.  The module exports one function that selects   *)
(* the indexable posts of an Eleventy collection, maps posts, authors,     *)
(* newsletters and tags to flat records and returns their concatenation;   *)
(* limitText() trims a record's fulltext to a size limit.                  *)
(*                                                                         *)
(* JavaScript values are modelled as tagged records: Undefined, Str(s)     *)
(* and Arr(a).  Titles and URLs are TLA+ strings; texts that go through    *)
(* limitText are sequences of one-character strings, so that indexes and   *)
(* lengths are those of the JavaScript string.                             *)
(***************************************************************************)
EXTENDS Integers, Sequences, FiniteSets

VARIABLES
    \* ---- one call of limitText(fulltext, limit) ----
    fulltext,           \* the argument: Str(chars) or Undefined
    limit,              \* the argument: a non-negative integer
    limited,            \* what the call returned
    relimited,          \* what limitText(limited, limit) returned
    lpc,                \* "idle" | "call" | "returned" | "again" | "threw"
    \* ---- one call of module.exports(collection) ----
    collection,         \* the input: glob items and what the builders yield
    eleventyPosts,      \* const eleventyPosts (line 50)
    authorsCollection,  \* const authorsCollection (line 67)
    newslettersCollection, \* const newslettersCollection (line 68)
    tagsCollection,     \* const tagsCollection (line 69)
    authorsFed,         \* authorsFeed(Object.values(authorsCollection))
    tagsFed,            \* tagsFeed(Object.values(tagsCollection))
    posts,              \* const posts (line 72)
    authors,            \* const authors (line 97)
    newsletters,        \* const newsletters (line 110)
    tags,               \* const tags (line 124)
    returned,           \* the returned array, None until the return
    threwAt,            \* "" or the statement whose TypeError propagated
    pc                  \* position in module.exports

limitVars == <<fulltext, limit, limited, relimited, lpc>>
exportVars == <<collection, eleventyPosts, authorsCollection,
                newslettersCollection, tagsCollection, authorsFed, tagsFed,
                posts, authors, newsletters, tags, returned, threwAt, pc>>
vars == <<fulltext, limit, limited, relimited, lpc,
          collection, eleventyPosts, authorsCollection,
          newslettersCollection, tagsCollection, authorsFed, tagsFed,
          posts, authors, newsletters, tags, returned, threwAt, pc>>

----------------------------------------------------------------------------
(* Bounds of the model *)

\* longest text handed to limitText in the limitText specification
MaxLen == 4
\* largest explicit limit handed to limitText
MaxLimit == 4
\* most items the glob enumeration returns
MaxItems == 2

\* the characters of the modelled texts; "\n" is the line break
Chars == {"a", "*", "\n"}

----------------------------------------------------------------------------
(* JavaScript values *)

Undefined == [type |-> "undefined"]
Str(s) == [type |-> "string", val |-> s]
Arr(a) == [type |-> "array", val |-> a]
None == [type |-> "none"]

\* ToBoolean of undefined, a string or an array
Truthy(v) ==
    /\ v.type # "undefined"
    /\ ~(v.type = "string" /\ Len(v.val) = 0)

\* ToString of undefined or a string, as string concatenation applies it
ToString(v) == IF v.type = "undefined" THEN "undefined" ELSE v.val

\* Array.isArray
IsArray(v) == v.type = "array"

Min(a, b) == IF a <= b THEN a ELSE b
Max(a, b) == IF a >= b THEN a ELSE b

\* the backward scan of String.prototype.lastIndexOf, 0-based index k
RECURSIVE ScanBack(_, _, _)
ScanBack(s, ch, k) ==
    IF k < 0 THEN -1
    ELSE IF s[k + 1] = ch THEN k
    ELSE ScanBack(s, ch, k - 1)

\* s.lastIndexOf(ch, position) for a one-character search string
lastIndexOf(s, ch, position) ==
    LET pos == Min(Max(position, 0), Len(s))
        start == Min(pos, Len(s) - 1)
    IN  ScanBack(s, ch, start)

\* s.slice(from, to)
slice(s, from, to) ==
    LET len == Len(s)
        f == IF from < 0 THEN Max(len + from, 0) ELSE Min(from, len)
        t == IF to < 0 THEN Max(len + to, 0) ELSE Min(to, len)
    IN  IF f >= t THEN <<>> ELSE SubSeq(s, f + 1, t)

----------------------------------------------------------------------------
(* limitText *)

\* the default value of limitText's limit parameter
DefaultLimit == 7500

\* fulltext.length throws a TypeError when fulltext is undefined
limitTextThrows(ft) == ft.type = "undefined"

\* A slip in the search position: the scan starts one character too late.
limitTextLate(ft, lim) ==
    IF Len(ft.val) <= lim THEN ft
    ELSE LET found == lastIndexOf(ft.val, "\n", lim + 1)
             newlineIndex == IF found = -1 THEN lim ELSE found
         IN  Str(slice(ft.val, 0, newlineIndex))

\* limitText(fulltext, limit) for a string fulltext
limitText(ft, lim) ==
    IF Len(ft.val) <= lim THEN ft
    ELSE LET found == lastIndexOf(ft.val, "\n", lim)
             newlineIndex == IF found = -1 THEN lim ELSE found
         IN  Str(slice(ft.val, 0, newlineIndex))

\* all texts of at most n characters
TextsUpTo(n) == UNION {[1..k -> Chars] : k \in 0..n}

----------------------------------------------------------------------------
(* The caller's side of module.exports, at rest while limitText is studied *)

ExportIdle ==
    /\ collection = None
    /\ eleventyPosts = None
    /\ authorsCollection = None
    /\ newslettersCollection = None
    /\ tagsCollection = None
    /\ authorsFed = None
    /\ tagsFed = None
    /\ posts = None
    /\ authors = None
    /\ newsletters = None
    /\ tags = None
    /\ returned = None
    /\ threwAt = ""
    /\ pc = "idle"

\* a caller about to evaluate limitText(fulltext, limit)
InitLimit ==
    /\ fulltext \in {Undefined} \cup {Str(t) : t \in TextsUpTo(MaxLen)}
    /\ limit \in 0..MaxLimit
    /\ limited = None
    /\ relimited = None
    /\ lpc = "call"
    /\ ExportIdle

\* limitText(fulltext, limit) returns
LimitTextReturns ==
    /\ lpc = "call"
    /\ ~limitTextThrows(fulltext)
    /\ limited' = limitText(fulltext, limit)
    /\ lpc' = "returned"
    /\ UNCHANGED <<fulltext, limit, relimited>>
    /\ UNCHANGED exportVars

\* limitText(undefined, limit): reading fulltext.length throws
LimitTextThrows ==
    /\ lpc = "call"
    /\ limitTextThrows(fulltext)
    /\ lpc' = "threw"
    /\ UNCHANGED <<fulltext, limit, limited, relimited>>
    /\ UNCHANGED exportVars

\* the caller feeds the result back: limitText(limited, limit)
LimitTextAgain ==
    /\ lpc = "returned"
    /\ relimited' = limitText(limited, limit)
    /\ lpc' = "again"
    /\ UNCHANGED <<fulltext, limit, limited>>
    /\ UNCHANGED exportVars

NextLimit == LimitTextReturns \/ LimitTextThrows \/ LimitTextAgain

SpecLimit == InitLimit /\ [][NextLimit]_vars

----------------------------------------------------------------------------
(* The inputs of module.exports *)

\* one content item of the glob enumeration, as the transform reads it
Item(tgs, title, url, canonicalUrl, auths, live) ==
    [data |-> [tags |-> tgs,
               title |-> title,
               page |-> [url |-> url],
               canonicalUrl |-> canonicalUrl,
               description |-> Str(<<"a">>),
               authors |-> auths],
     template |-> [frontMatter |-> [content |-> Str(<<"*", "a", "\n", "a">>)]],
     live |-> live]

\* items that pass every filter of the selector
EligibleItems ==
    {Item(Arr(<<"news", "post">>), Str("T"), Str("/a/"), c, a, TRUE) :
        c \in {Str("/a/"), Str("/c/")},
        a \in {Undefined, Arr(<<"k1", "k1">>), Arr(<<"k2", "k1">>)}}
    \cup {Item(Arr(<<"post">>), Str("U"), Str("/b/"), Str("/b/"),
               Arr(<<"k1">>), TRUE)}

\* items that one filter of the selector rejects
IneligibleItems ==
    {Item(Str("post"), Str("T"), Str("/p/"), Str("/p/"), Arr(<<"k1">>), TRUE),
     Item(Arr(<<"news">>), Str("T"), Str("/q/"), Str("/q/"), Arr(<<"k1">>), TRUE),
     Item(Arr(<<>>), Str("T"), Str("/q/"), Str("/q/"), Arr(<<"k1">>), TRUE),
     Item(Arr(<<"post">>), Str(""), Str("/r/"), Str("/r/"), Arr(<<"k1">>), TRUE),
     Item(Arr(<<"post">>), Undefined, Str("/r/"), Str("/r/"), Undefined, TRUE),
     Item(Arr(<<"post">>), Str("T"), Str(""), Str("/s/"), Arr(<<"k1">>), TRUE),
     Item(Arr(<<"post">>), Str("T"), Str("/t/"), Str("/t/"), Arr(<<"k1">>), FALSE)}

Items == EligibleItems \cup IneligibleItems

\* an entry of the authors or of the tags collection
Entry(title, href, description, canonicalUrl) ==
    [title |-> title,
     href |-> href,
     description |-> description,
     data |-> [canonicalUrl |-> canonicalUrl]]

Ann == Entry(Str("Ann"), Str("/authors/k1/"), Str(<<"a", "\n">>),
             Str("/authors/k1/"))
\* an author without a title
Bob == Entry(Undefined, Str("/authors/k2/"), Str(<<"a">>), Str("/en/k2/"))
\* an author without a description
Cyd == Entry(Str("Cyd"), Str("/authors/k2/"), Undefined, Str("/authors/k2/"))

\* what authorsCollectionFn may return: an object keyed by author key
AuthorsCollections ==
    {[k \in {} |-> Ann],
     [k \in {"k1"} |-> Ann],
     [k \in {"k1", "k2"} |-> IF k = "k1" THEN Ann ELSE Bob],
     [k \in {"k1", "k2"} |-> IF k = "k1" THEN Ann ELSE Cyd]}

\* a newsletter item
Newsletter(title, url, canonicalUrl) ==
    [data |-> [title |-> title,
               page |-> [url |-> url],
               canonicalUrl |-> canonicalUrl,
               description |-> Undefined],
     template |-> [frontMatter |-> [content |-> Str(<<"a", "*">>)]]]

\* what newslettersCollectionFn may return: an array of items
NewslettersCollections ==
    {<<>>,
     <<Newsletter(Undefined, Str("/a/"), Str("/a/")),
       Newsletter(Str("N"), Str("/n/"), Undefined)>>}

Css == Entry(Str("CSS"), Str("/tags/css/"), Str(<<"a">>), Str("/tags/css/"))
\* a tag without a description
Pwa == Entry(Str("PWA"), Str("/tags/pwa/"), Undefined, Str("/tags/pwa/"))

\* what tagsCollectionFn may return: an object keyed by tag key
TagsCollections ==
    {[k \in {"t1"} |-> Css],
     [k \in {"t1", "t2"} |-> IF k = "t1" THEN Css ELSE Pwa]}

\* the keys of the modelled objects, in insertion order
KeyOrder == <<"k1", "k2", "t1", "t2">>

\* all sequences over S of at most n elements
SeqsUpTo(S, n) == UNION {[1..k -> S] : k \in 0..n}

\* the permutations of 1..n
Perms(n) == {p \in [1..n -> 1..n] : \A i, j \in 1..n : p[i] = p[j] => i = j}

----------------------------------------------------------------------------
(* The collaborators of module.exports *)

\* collection.getFilteredByGlob('**/*.md')
getFilteredByGlob(coll) == coll.glob

\* the livePosts filter: the publish gate of an item
livePosts(item) == item.live

\* removeMarkdown: strips the formatting characters of a text
removeMarkdown(md) == Str(SelectSeq(md.val, LAMBDA c : c # "*"))

authorsCollectionFn(coll) == coll.authors
newslettersCollectionFn(coll) == coll.newsletters
tagsCollectionFn(coll) == coll.tags

\* Object.values(obj)
ObjectValues(obj) ==
    LET keys == SelectSeq(KeyOrder, LAMBDA k : k \in DOMAIN obj)
    IN  [i \in 1..Len(keys) |-> obj[keys[i]]]

\* the orders in which a feed hook may return the values it is given
FeedOrders(values) ==
    {[i \in 1..Len(values) |-> values[p[i]]] : p \in Perms(Len(values))}

----------------------------------------------------------------------------
(* module.exports *)

validTags == {"post"}

lang == "en"

\* the first filter: tags is an array and some tag is a valid tag
hasValidTag(item) ==
    IF ~IsArray(item.data.tags) THEN FALSE
    ELSE \E i \in 1..Len(item.data.tags.val) :
             item.data.tags.val[i] \in validTags

\* the second filter: item.data.title && item.data.page.url
hasTitleAndUrl(item) ==
    Truthy(item.data.title) /\ Truthy(item.data.page.url)

\* A slip in the filter chain: the publish gate is left out.
selectPostsUngated(coll) ==
    SelectSeq(SelectSeq(getFilteredByGlob(coll), hasValidTag), hasTitleAndUrl)

\* the filter chain that yields eleventyPosts
selectPosts(coll) ==
    SelectSeq(SelectSeq(SelectSeq(getFilteredByGlob(coll), hasValidTag),
                        hasTitleAndUrl),
              livePosts)

\* data.authors || []
authorKeys(data) == IF Truthy(data.authors) THEN data.authors.val ELSE <<>>

\* A slip in the author resolution: data.authors is mapped without "|| []".
postThrowsNoDefault(item, authorsColl) ==
    \/ ~Truthy(item.data.authors)
    \/ \E i \in 1..Len(authorKeys(item.data)) :
           authorKeys(item.data)[i] \notin DOMAIN authorsColl

\* authorsCollection[author].title throws when the key has no entry
postThrows(item, authorsColl) ==
    \E i \in 1..Len(authorKeys(item.data)) :
        authorKeys(item.data)[i] \notin DOMAIN authorsColl

\* A slip in the post mapper: duplicate authors are listed once and only
\* the valid tags are kept.
postRecordTidied(item, authorsColl) ==
    LET data == item.data
        text == removeMarkdown(item.template.frontMatter.content)
        ltd == limitText(text, DefaultLimit)
        all == authorKeys(data)
        keys == IF Len(all) > 1 /\ all[1] = all[2] THEN Tail(all) ELSE all
    IN  [objectID |-> ToString(data.page.url) \o "#" \o lang,
         lang |-> lang,
         title |-> data.title,
         url |-> data.canonicalUrl,
         description |-> data.description,
         fulltext |-> ltd,
         authors |-> [i \in 1..Len(keys) |-> authorsColl[keys[i]].title],
         _tags |-> Arr(SelectSeq(data.tags.val, LAMBDA t : t \in validTags))]

\* the record of one post
postRecord(item, authorsColl) ==
    LET data == item.data
        text == removeMarkdown(item.template.frontMatter.content)
        ltd == limitText(text, DefaultLimit)
        keys == authorKeys(data)
    IN  [objectID |-> ToString(data.page.url) \o "#" \o lang,
         lang |-> lang,
         title |-> data.title,
         url |-> data.canonicalUrl,
         description |-> data.description,
         fulltext |-> ltd,
         authors |-> [i \in 1..Len(keys) |-> authorsColl[keys[i]].title],
         _tags |-> data.tags]

\* the record of one author or one tag
entryThrows(entry) == limitTextThrows(entry.description)

\* A slip in the author and tag mapper: the objectID is built from the
\* canonical URL instead of the href.
entryRecordCanonical(entry) ==
    [objectID |-> ToString(entry.data.canonicalUrl) \o "#" \o lang,
     lang |-> lang,
     title |-> entry.title,
     url |-> entry.data.canonicalUrl,
     description |-> entry.description,
     fulltext |-> limitText(entry.description, DefaultLimit)]

entryRecord(entry) ==
    [objectID |-> ToString(entry.href) \o "#" \o lang,
     lang |-> lang,
     title |-> entry.title,
     url |-> entry.data.canonicalUrl,
     description |-> entry.description,
     fulltext |-> limitText(entry.description, DefaultLimit)]

\* the record of one newsletter
newsletterRecord(item) ==
    LET data == item.data
        text == removeMarkdown(item.template.frontMatter.content)
    IN  [objectID |-> ToString(data.page.url) \o "#" \o lang,
         lang |-> lang,
         title |-> data.title,
         url |-> data.canonicalUrl,
         description |-> data.description,
         fulltext |-> limitText(text, DefaultLimit)]

\* A slip in the return statement: newsletters are spread before authors.
concatenatedSwapped(ps, as, ns, ts) == ps \o ns \o as \o ts

\* [...posts, ...authors, ...newsletters, ...tags]
concatenated(ps, as, ns, ts) == ps \o as \o ns \o ts

\* the build calls module.exports(collection)
Init ==
    /\ collection \in [glob : SeqsUpTo(Items, MaxItems),
                       authors : AuthorsCollections,
                       newsletters : NewslettersCollections,
                       tags : TagsCollections]
    /\ eleventyPosts = None
    /\ authorsCollection = None
    /\ newslettersCollection = None
    /\ tagsCollection = None
    /\ authorsFed = None
    /\ tagsFed = None
    /\ posts = None
    /\ authors = None
    /\ newsletters = None
    /\ tags = None
    /\ returned = None
    /\ threwAt = ""
    /\ pc = "select"
    /\ fulltext = Undefined
    /\ limit = DefaultLimit
    /\ limited = None
    /\ relimited = None
    /\ lpc = "idle"

\* lines 50-62: const eleventyPosts = ...filter(...).filter(...).filter(livePosts)
SelectPosts ==
    /\ pc = "select"
    /\ eleventyPosts' = selectPosts(collection)
    /\ pc' = "collections"
    /\ UNCHANGED <<collection, authorsCollection, newslettersCollection,
                   tagsCollection, authorsFed, tagsFed, posts, authors,
                   newsletters, tags, returned, threwAt>>
    /\ UNCHANGED limitVars

\* lines 67-69: the three collections are built
BuildCollections ==
    /\ pc = "collections"
    /\ authorsCollection' = authorsCollectionFn(collection)
    /\ newslettersCollection' = newslettersCollectionFn(collection)
    /\ tagsCollection' = tagsCollectionFn(collection)
    /\ pc' = "posts"
    /\ UNCHANGED <<collection, eleventyPosts, authorsFed, tagsFed, posts,
                   authors, newsletters, tags, returned, threwAt>>
    /\ UNCHANGED limitVars

\* lines 72-95: const posts = eleventyPosts.map(...)
MapPosts ==
    /\ pc = "posts"
    /\ IF \E i \in 1..Len(eleventyPosts) :
              postThrows(eleventyPosts[i], authorsCollection)
       THEN /\ pc' = "threw"
            /\ threwAt' = "posts"
            /\ posts' = posts
       ELSE /\ pc' = "authors"
            /\ threwAt' = threwAt
            /\ posts' = [i \in 1..Len(eleventyPosts) |->
                          postRecord(eleventyPosts[i], authorsCollection)]
    /\ UNCHANGED <<collection, eleventyPosts, authorsCollection,
                   newslettersCollection, tagsCollection, authorsFed, tagsFed,
                   authors, newsletters, tags, returned>>
    /\ UNCHANGED limitVars

\* lines 97-108: const authors = authorsFeed(Object.values(...)).map(...)
MapAuthors ==
    /\ pc = "authors"
    /\ \E fed \in FeedOrders(ObjectValues(authorsCollection)) :
          /\ authorsFed' = fed
          /\ IF \E i \in 1..Len(fed) : entryThrows(fed[i])
             THEN /\ pc' = "threw"
                  /\ threwAt' = "authors"
                  /\ authors' = authors
             ELSE /\ pc' = "newsletters"
                  /\ threwAt' = threwAt
                  /\ authors' = [i \in 1..Len(fed) |-> entryRecord(fed[i])]
    /\ UNCHANGED <<collection, eleventyPosts, authorsCollection,
                   newslettersCollection, tagsCollection, tagsFed, posts,
                   newsletters, tags, returned>>
    /\ UNCHANGED limitVars

\* lines 110-122: const newsletters = newslettersCollection.map(...)
MapNewsletters ==
    /\ pc = "newsletters"
    /\ newsletters' = [i \in 1..Len(newslettersCollection) |->
                         newsletterRecord(newslettersCollection[i])]
    /\ pc' = "tags"
    /\ UNCHANGED <<collection, eleventyPosts, authorsCollection,
                   newslettersCollection, tagsCollection, authorsFed, tagsFed,
                   posts, authors, tags, returned, threwAt>>
    /\ UNCHANGED limitVars

\* lines 124-133: const tags = tagsFeed(Object.values(...)).map(...)
MapTags ==
    /\ pc = "tags"
    /\ \E fed \in FeedOrders(ObjectValues(tagsCollection)) :
          /\ tagsFed' = fed
          /\ IF \E i \in 1..Len(fed) : entryThrows(fed[i])
             THEN /\ pc' = "threw"
                  /\ threwAt' = "tags"
                  /\ tags' = tags
             ELSE /\ pc' = "return"
                  /\ threwAt' = threwAt
                  /\ tags' = [i \in 1..Len(fed) |-> entryRecord(fed[i])]
    /\ UNCHANGED <<collection, eleventyPosts, authorsCollection,
                   newslettersCollection, tagsCollection, authorsFed, posts,
                   authors, newsletters, returned>>
    /\ UNCHANGED limitVars

\* line 135: return [...posts, ...authors, ...newsletters, ...tags]
Return ==
    /\ pc = "return"
    /\ returned' = concatenated(posts, authors, newsletters, tags)
    /\ pc' = "returned"
    /\ UNCHANGED <<collection, eleventyPosts, authorsCollection,
                   newslettersCollection, tagsCollection, authorsFed, tagsFed,
                   posts, authors, newsletters, tags, threwAt>>
    /\ UNCHANGED limitVars

Next ==
    \/ SelectPosts
    \/ BuildCollections
    \/ MapPosts
    \/ MapAuthors
    \/ MapNewsletters
    \/ MapTags
    \/ Return

Spec == Init /\ [][Next]_vars

----------------------------------------------------------------------------
(* Properties of limitText, checked under SpecLimit *)

\* p is a prefix of t
IsPrefix(p, t) == Len(p) <= Len(t) /\ p = SubSeq(t, 1, Len(p))

\* the 0-based indexes i <= L at which t holds a line break
BreaksUpTo(t, L) == {i \in 0..L : i < Len(t) /\ t[i + 1] = "\n"}

SetMax(S) == CHOOSE m \in S : \A x \in S : x <= m

\* the call of limitText has returned
LimitReturned == lpc \in {"returned", "again"}

\* the call of limitText has returned and it had to truncate
Truncated == LimitReturned /\ Len(fulltext.val) > limit

\* C1: a text no longer than the limit is returned unchanged; otherwise the
\* result is a prefix of the text and at most limit characters long.
C1_TruncationBound ==
    LimitReturned =>
        IF Len(fulltext.val) <= limit
        THEN limited = fulltext
        ELSE /\ limited.type = "string"
             /\ IsPrefix(limited.val, fulltext.val)
             /\ Len(limited.val) <= limit

C1_Witness ==
    /\ Truncated
    /\ Len(limited.val) >= 2
    /\ Len(limited.val) < limit

\* C2: a text longer than the limit is cut at the greatest line-break index
\* <= limit (break excluded), or at exactly limit characters when no line
\* break occurs at an index <= limit.
C2_ReferenceCut ==
    Truncated =>
        LET B == BreaksUpTo(fulltext.val, limit)
        IN  IF B # {}
            THEN limited.val = SubSeq(fulltext.val, 1, SetMax(B))
            ELSE /\ limited.val = SubSeq(fulltext.val, 1, limit)
                 /\ Len(limited.val) = limit

\* a hard cut in a text that does hold a line break, beyond the limit
C2_Witness ==
    /\ Truncated
    /\ BreaksUpTo(fulltext.val, limit) = {}
    /\ \E i \in 1..Len(fulltext.val) : fulltext.val[i] = "\n"
    /\ Len(limited.val) = limit
    /\ limit >= 2

\* C3 as stated: when limitText truncates and a line break occurs at an
\* index <= limit, the result ends at the last such break and its last
\* character is never a line break.
C3_NoTrailingNewline ==
    (Truncated /\ BreaksUpTo(fulltext.val, limit) # {}) =>
        /\ limited.val =
               SubSeq(fulltext.val, 1, SetMax(BreaksUpTo(fulltext.val, limit)))
        /\ \/ Len(limited.val) = 0
           \/ limited.val[Len(limited.val)] # "\n"

\* C3 amended: when limitText truncates and a line break occurs at an index
\* <= limit, the result ends at the last such break, that break excluded;
\* the result ends in a line break exactly when the character just before
\* that break is a line break too.
C3_EndsAtLastBreak ==
    (Truncated /\ BreaksUpTo(fulltext.val, limit) # {}) =>
        LET i == SetMax(BreaksUpTo(fulltext.val, limit))
            n == Len(limited.val)
        IN  /\ n = i
            /\ IsPrefix(limited.val, fulltext.val)
            /\ fulltext.val[n + 1] = "\n"
            /\ (n > 0 /\ limited.val[n] = "\n") <=>
                   (i - 1) \in BreaksUpTo(fulltext.val, limit)

\* a cut at the second of two consecutive line breaks
C3_Witness ==
    /\ Truncated
    /\ BreaksUpTo(fulltext.val, limit) # {}
    /\ Len(limited.val) >= 2
    /\ limited.val[Len(limited.val)] = "\n"

\* C4: limiting an already limited text with the same limit changes nothing.
C4_Idempotent == (lpc = "again") => relimited = limited

C4_Witness ==
    /\ lpc = "again"
    /\ Len(fulltext.val) > limit
    /\ Len(limited.val) >= 1
    /\ Len(limited.val) < Len(fulltext.val)
    /\ relimited = limited

----------------------------------------------------------------------------
(* Properties of module.exports, checked under Spec *)

\* the selector has run
Selected == pc \notin {"idle", "select"}

\* the post mapper has run to its end
PostsMapped == pc \in {"authors", "newsletters", "tags", "return", "returned"}
                  \/ (pc = "threw" /\ threwAt # "posts")

\* the inclusion rule, stated on one item of the glob enumeration
Keep(item) ==
    /\ item.data.tags.type = "array"
    /\ "post" \in {item.data.tags.val[i] : i \in 1..Len(item.data.tags.val)}
    /\ item.data.title.type = "string" /\ item.data.title.val # ""
    /\ item.data.page.url.type = "string" /\ item.data.page.url.val # ""
    /\ item.live

\* the indexes of the glob enumeration that the inclusion rule keeps
KeptIdx == {i \in 1..Len(collection.glob) : Keep(collection.glob[i])}

\* sel lists the items of src at the indexes idx, in increasing index order
IsSelection(sel, src, idx) ==
    /\ Len(sel) = Cardinality(idx)
    /\ \E f \in [1..Len(sel) -> idx] :
          /\ \A a, b \in 1..Len(sel) : a < b => f[a] < f[b]
          /\ \A a \in 1..Len(sel) : sel[a] = src[f[a]]

\* C5: the selector keeps exactly the items with an array of tags holding
\* "post", a truthy title and page URL and a positive publish gate, in the
\* order of the glob enumeration; the post records follow that order, one
\* per kept item.
C5_SelectorCorrect ==
    /\ Selected => IsSelection(eleventyPosts, collection.glob, KeptIdx)
    /\ PostsMapped =>
          /\ Len(posts) = Len(eleventyPosts)
          /\ \A k \in 1..Len(posts) :
                /\ posts[k].title = eleventyPosts[k].data.title
                /\ posts[k].objectID =
                       eleventyPosts[k].data.page.url.val \o "#en"

\* a non-array tags value is passed over and the item after it is kept
C5_Witness ==
    /\ pc = "returned"
    /\ Len(collection.glob) = 2
    /\ collection.glob[1].data.tags.type # "array"
    /\ Len(eleventyPosts) = 1
    /\ eleventyPosts[1] = collection.glob[2]
    /\ Len(posts) = 1

\* the page URL or href each returned record was mapped from, in order
SourceUrls ==
    [i \in 1..Len(eleventyPosts) |-> eleventyPosts[i].data.page.url]
    \o [i \in 1..Len(authorsFed) |-> authorsFed[i].href]
    \o [i \in 1..Len(newslettersCollection) |->
            newslettersCollection[i].data.page.url]
    \o [i \in 1..Len(tagsFed) |-> tagsFed[i].href]

PairwiseDistinct(s) == \A i, j \in 1..Len(s) : i # j => s[i] # s[j]

\* C6 as stated: every returned record's objectID is that record's url
\* followed by "#" and its lang, and records of pairwise distinct urls have
\* pairwise distinct objectIDs.
C6_ObjectIDFromRecordUrl ==
    (pc = "returned") =>
        /\ \A i \in 1..Len(returned) :
              /\ returned[i].lang = "en"
              /\ returned[i].objectID =
                     ToString(returned[i].url) \o "#" \o returned[i].lang
        /\ PairwiseDistinct([i \in 1..Len(returned) |-> returned[i].url]) =>
              PairwiseDistinct([i \in 1..Len(returned) |->
                                    returned[i].objectID])

\* C6 amended: every returned record's objectID is the page URL (posts,
\* newsletters) or href (authors, tags) of the entry it was mapped from,
\* followed by "#" and its lang "en"; when those page URLs and hrefs are
\* all present and pairwise distinct, so are the objectIDs.
C6_ObjectIDFromSourceUrl ==
    (pc = "returned") =>
        /\ Len(returned) = Len(SourceUrls)
        /\ \A i \in 1..Len(returned) :
              /\ returned[i].lang = "en"
              /\ returned[i].objectID =
                     ToString(SourceUrls[i]) \o "#" \o returned[i].lang
        /\ ((\A i \in 1..Len(SourceUrls) : SourceUrls[i].type = "string")
               /\ PairwiseDistinct(SourceUrls)) =>
              PairwiseDistinct([i \in 1..Len(returned) |->
                                    returned[i].objectID])

\* records of all four kinds, distinct source URLs, and a record whose url
\* is not the one its objectID was built from
C6_Witness ==
    /\ pc = "returned"
    /\ Len(posts) >= 1 /\ Len(authors) = 2 /\ Len(newsletters) = 2
    /\ Len(tags) >= 1
    /\ PairwiseDistinct(SourceUrls)
    /\ \E i \in 1..Len(authors) :
          authors[i].objectID # ToString(authors[i].url) \o "#en"

\* some selected post lists an author key without an entry in the authors
\* collection, read off the input of the call
MissingAuthorKey ==
    \E i \in KeptIdx :
        LET a == collection.glob[i].data.authors
        IN  /\ a.type = "array"
            /\ \E j \in 1..Len(a.val) : a.val[j] \notin DOMAIN collection.authors

\* C7: when a selected post lists an author key without an entry, the post
\* mapper throws and the call returns no list, not even a partial one; when
\* every key resolves the post mapper does not throw.
C7_MissingAuthorAborts ==
    /\ (pc = "threw") => (returned = None)
    /\ (pc \notin {"idle", "select", "collections", "posts"}) =>
          /\ MissingAuthorKey <=> (pc = "threw" /\ threwAt = "posts")
          /\ MissingAuthorKey => (posts = None /\ returned = None)

\* the first post resolves, the second does not, and nothing is returned
C7_Witness ==
    /\ pc = "threw"
    /\ threwAt = "posts"
    /\ Len(eleventyPosts) = 2
    /\ ~postThrows(eleventyPosts[1], authorsCollection)
    /\ postThrows(eleventyPosts[2], authorsCollection)
    /\ returned = None

\* C8 as stated: a field missing from an author, newsletter or tag entry
\* never makes the call fail; the only failure is that of the post mapper.
C8_MissingFieldNeverFails ==
    (pc = "threw") => (threwAt = "posts")

\* the record group recs maps the entries src one to one, in order
MapsInOrder(recs, src) ==
    /\ Len(recs) = Len(src)
    /\ \A i \in 1..Len(recs) :
          /\ recs[i].objectID = ToString(src[i].href) \o "#en"
          /\ recs[i].title = src[i].title

\* C9: the returned list is the post records, then the author records,
\* then the newsletter records, then the tag records; nothing is dropped,
\* merged or reordered, and each group follows its source's order.
C9_Concatenation ==
    (pc = "returned") =>
        LET np == Len(posts)
            na == Len(authors)
            nn == Len(newsletters)
            nt == Len(tags)
        IN  /\ Len(returned) = np + na + nn + nt
            /\ \A i \in 1..np : returned[i] = posts[i]
            /\ \A i \in 1..na : returned[np + i] = authors[i]
            /\ \A i \in 1..nn : returned[np + na + i] = newsletters[i]
            /\ \A i \in 1..nt : returned[np + na + nn + i] = tags[i]
            /\ np = Cardinality(KeptIdx)
            /\ na = Cardinality(DOMAIN collection.authors)
            /\ nn = Len(collection.newsletters)
            /\ nt = Cardinality(DOMAIN collection.tags)
            /\ MapsInOrder(authors, authorsFed)
            /\ MapsInOrder(tags, tagsFed)
            /\ \A i \in 1..nn :
                  /\ newsletters[i].title = newslettersCollection[i].data.title
                  /\ newsletters[i].url =
                         newslettersCollection[i].data.canonicalUrl

\* two posts, two authors, two newsletters and a tag are returned
C9_Witness ==
    /\ pc = "returned"
    /\ Len(posts) = 2 /\ Len(authors) = 2 /\ Len(newsletters) = 2
    /\ Len(tags) = 1
    /\ Len(returned) = 7
    /\ authors[1] # authors[2]

\* C10: a post record's authors are the titles of the post's author keys,
\* as many and in the same order, duplicates kept; a post without authors
\* gets an empty list and no error; _tags is the post's tags unchanged.
C10_AuthorsAndTags ==
    /\ PostsMapped =>
          \A k \in 1..Len(posts) :
              LET d == eleventyPosts[k].data
                  n == IF d.authors.type = "array" THEN Len(d.authors.val)
                       ELSE 0
              IN  /\ Len(posts[k].authors) = n
                  /\ \A j \in 1..n :
                        posts[k].authors[j] =
                            collection.authors[d.authors.val[j]].title
                  /\ posts[k]._tags = d.tags
    /\ (pc = "threw" /\ threwAt = "posts") => MissingAuthorKey

\* a post with a repeated author, a post without authors, a tag that is
\* not "post"
C10_Witness ==
    /\ pc = "returned"
    /\ Len(posts) = 2
    /\ Len(posts[1].authors) = 2
    /\ posts[1].authors[1] = posts[1].authors[2]
    /\ eleventyPosts[2].data.authors = Undefined
    /\ posts[2].authors = <<>>
    /\ posts[1]._tags = Arr(<<"news", "post">>)

====
